---- MODULE Spec2Model ----
(***************************************************************************)
(* gosftpsync: one-shot synchronisation of an SFTP "read" directory to a   *)
(* local download directory.  Two programs share the lister and the diff:  *)
(*   variant "remote" - download each new file, then rename it on the      *)
(*                      server into the archive directory; the archive is  *)
(*                      listed with listSFTPFiles;                         *)
(*   variant "local"  - download only; the archive is a local directory    *)
(*                      listed with ioutil.ReadDir; helper errors end the  *)
(*                      process through iLog.Fatalf.                       *)
(* A directory entry is a record [name, isDir].  Go slices are modelled as *)
(* a backing array, a length and a panic flag, so that the in-place        *)
(* append of remove() and its bounds checks are those of the runtime.      *)
(*                                                                         *)
(* Environment: ReadPath, ArchivedPath and DownloadPath are three distinct *)
(* directories; runs never overlap; between runs other parties may create  *)
(* entries in ReadPath and nobody deletes anything; sc.ReadDir answers in  *)
(* an order of the server's choice, which may differ from call to call;    *)
(* every call on the server or the local disk may fail.                    *)
(***************************************************************************)
EXTENDS Integers, Sequences, FiniteSets, TLC

\* ---------------------------------------------------------------- bounds
NumFiles == 1
MaxRuns == 2
MaxUploads == 1
ListNames == 4
DiffNames == 3
DiffMaxLen == 3

VARIABLES
  variant,          \* which program runs: "remote" or "local"
  pending,          \* entries of the remote read directory (ReadPath)
  archive,          \* entries of the archive location (ArchivedPath)
  local,            \* download directory: name -> "none" | "partial" | "full"
  pc,               \* position of the running process
  raw,              \* files as returned by sc.ReadDir (lister specification)
  SFTPFiles,        \* main: result of listing ReadPath
  archivedFiles,    \* main: result of listing ArchivedPath
  filesToDownload,  \* main: the diff list
  idx,              \* downloadFiles: 1-based position in the diff list
  err,              \* main: the err variable
  srcOpen,          \* remote file handles opened and not closed
  dstOpen,          \* local file handles opened and not closed
  runs,             \* number of runs started
  uploads,          \* number of entries created in ReadPath by other parties
  hist              \* record of what the current and the previous run did

vars == <<variant, pending, archive, local, pc, raw, SFTPFiles, archivedFiles,
          filesToDownload, idx, err, srcOpen, dstOpen, runs, uploads, hist>>

\* ------------------------------------------------------------ sequences
Range(s) == {s[k] : k \in 1..Len(s)}

NamesOf(s) == {s[k].name : k \in 1..Len(s)}

NoDup(s) == \A j, k \in 1..Len(s) : s[j] = s[k] => j = k

SeqsUpTo(S, n) == UNION {[1..k -> S] : k \in 0..n}

\* all orderings of a finite set, as sequences
Orderings(S) == {s \in [1..Cardinality(S) -> S] : Range(s) = S}

RECURSIVE SortedByName(_)
SortedByName(S) ==
  IF S = {} THEN <<>>
  ELSE LET m == CHOOSE e \in S : \A f \in S : e.name <= f.name
       IN <<m>> \o SortedByName(S \ {m})

\* ------------------------------------------------------------- the lister
\* a Go slice: backing array, length, and whether the goroutine has panicked
Slice(a, n) == [arr |-> a, len |-> n, panic |-> FALSE]

\* append(files[:i], files[i+1:]...), i 0-based: files[i+1:] panics when
\* i+1 > len(files); otherwise the tail is copied down inside the array.
remove(files, i) ==
  IF i + 1 > files.len THEN [files EXCEPT !.panic = TRUE]
  ELSE [files EXCEPT
          !.arr = [k \in 1..Len(files.arr) |->
                     IF k >= i + 1 /\ k <= files.len - 1
                     THEN files.arr[k + 1] ELSE files.arr[k]],
          !.len = files.len - 1]

\* for i, file := range files: the range expression is evaluated once, so
\* the loop runs n = len(ReadDir result) times and reads the backing array.
RECURSIVE RangeLoop(_, _, _)
RangeLoop(files, i, n) ==
  IF i >= n \/ files.panic THEN files
  ELSE IF files.arr[i + 1].isDir
       THEN RangeLoop(remove(files, i), i + 1, n)
       ELSE RangeLoop(files, i + 1, n)

\* result of listSFTPFiles on a successful ReadDir: [panic, list]
listSFTPFiles(readDir) ==
  LET r == RangeLoop(Slice(readDir, Len(readDir)), 0, Len(readDir))
  IN IF r.panic THEN [panic |-> TRUE, list |-> <<>>]
     ELSE [panic |-> FALSE, list |-> SubSeq(r.arr, 1, r.len)]

\* --------------------------------------------------------------- the diff
\* the map left empty
ArchivedMap_empty(archivedSFTPFiles, k) == {}

\* archived[af.Name()] = struct{}{} for every archived file: the key set
RECURSIVE ArchivedMap(_, _)
ArchivedMap(archivedSFTPFiles, k) ==
  IF k = 0 THEN {}
  ELSE ArchivedMap(archivedSFTPFiles, k - 1) \cup {archivedSFTPFiles[k].name}

RECURSIVE DiffLoop(_, _, _)
DiffLoop(processedSFTPFiles, archived, k) ==
  IF k = 0 THEN <<>>
  ELSE LET diff == DiffLoop(processedSFTPFiles, archived, k - 1)
           nf == processedSFTPFiles[k]
       IN IF nf.name \notin archived THEN Append(diff, nf.name) ELSE diff

\* the diff with the membership test inverted
getDiffFileNames_found(processedSFTPFiles, archivedSFTPFiles) ==
  LET archived == ArchivedMap(archivedSFTPFiles, Len(archivedSFTPFiles))
  IN SelectSeq([k \in 1..Len(processedSFTPFiles) |-> processedSFTPFiles[k].name],
               LAMBDA n : n \in archived)

getDiffFileNames(processedSFTPFiles, archivedSFTPFiles) ==
  DiffLoop(processedSFTPFiles,
           ArchivedMap(archivedSFTPFiles, Len(archivedSFTPFiles)),
           Len(processedSFTPFiles))

\* ------------------------------------------------------------ the universe
\* regular files are named 1..NumFiles; there are two sub-directories, the
\* least number that can put two directories next to each other in a listing
Names == 1..(NumFiles + 2)

Entry(n, d) == [name |-> n, isDir |-> d]

FileEntries == {Entry(n, FALSE) : n \in 1..NumFiles}

DirEntries == {Entry(NumFiles + 1, TRUE), Entry(NumFiles + 2, TRUE)}

Entries == FileEntries \cup DirEntries

EntryNames(S) == {e.name : e \in S}

EntryNamed(S, n) == CHOOSE e \in S : e.name = n

NonDirs(s) == SelectSeq(s, LAMBDA e : ~e.isDir)

\* what the process remembers of the current and the previous run
NoHist ==
  [pendAtStart |-> {}, archAtStart |-> {}, localAtStart |-> <<>>,
   dl |-> {}, dlOk |-> {}, mv |-> {}, failedAt |-> 0, placed |-> {},
   prevOk |-> FALSE, prevRemainder |-> {}, changed |-> FALSE]

Stopped == {"idle", "exit", "panic"}

\* ------------------------------------------------------------------ Init
Init ==
  /\ variant \in {"remote", "local"}
  /\ pending \in SUBSET Entries
  /\ archive \in SUBSET Entries
  /\ local = [n \in Names |-> "none"]
  /\ pc = "idle"
  /\ raw = <<>>
  /\ SFTPFiles = <<>>
  /\ archivedFiles = <<>>
  /\ filesToDownload = <<>>
  /\ idx = 1
  /\ err = "nil"
  /\ srcOpen = 0
  /\ dstOpen = 0
  /\ runs = 0
  /\ uploads = 0
  /\ hist = [NoHist EXCEPT !.localAtStart = [n \in Names |-> "none"]]

\* ------------------------------------------------------- process lifetime
\* the history of a run that has just ended
Ended(h, ok, remainder, k) ==
  [h EXCEPT !.prevOk = ok, !.prevRemainder = remainder, !.failedAt = k,
            !.changed = FALSE]

\* a new process is started (by the scheduler): fresh variables of main
StartRun ==
  /\ pc \in Stopped
  /\ runs < MaxRuns
  /\ runs' = runs + 1
  /\ pc' = "listRead"
  /\ SFTPFiles' = <<>>
  /\ archivedFiles' = <<>>
  /\ filesToDownload' = <<>>
  /\ idx' = 1
  /\ err' = "nil"
  /\ srcOpen' = 0
  /\ dstOpen' = 0
  /\ hist' = [hist EXCEPT !.pendAtStart = pending, !.archAtStart = archive,
                          !.localAtStart = local, !.dl = {}, !.dlOk = {},
                          !.mv = {}, !.failedAt = 0]
  /\ UNCHANGED <<variant, pending, archive, local, raw, uploads>>

\* between two runs another party creates a file or a directory in ReadPath
Upload ==
  /\ pc \in Stopped
  /\ uploads < MaxUploads
  /\ \E e \in Entries :
       /\ e.name \notin EntryNames(pending)
       /\ pending' = pending \cup {e}
  /\ uploads' = uploads + 1
  /\ pc' = "idle"
  /\ hist' = [hist EXCEPT !.changed = TRUE]
  /\ UNCHANGED <<variant, archive, local, raw, SFTPFiles, archivedFiles,
                 filesToDownload, idx, err, srcOpen, dstOpen, runs>>

\* ---------------------------------------------------------------- main
\* listSFTPFiles(ReadPath) returns an error: iLog.Fatalf
ListReadFails ==
  /\ pc = "listRead"
  /\ err' = "ListError"
  /\ pc' = "exit"
  /\ hist' = Ended(hist, FALSE, {}, 0)
  /\ UNCHANGED <<variant, pending, archive, local, raw, SFTPFiles,
                 archivedFiles, filesToDownload, idx, srcOpen, dstOpen, runs,
                 uploads>>

\* listSFTPFiles(ReadPath): ReadDir answers in an order of the server's choice
ListRead ==
  /\ pc = "listRead"
  /\ \E order \in Orderings(pending) :
       LET r == listSFTPFiles(order)
       IN IF r.panic
          THEN /\ pc' = "panic"
               /\ hist' = Ended(hist, FALSE, {}, 0)
               /\ UNCHANGED SFTPFiles
          ELSE /\ pc' = "listArchived"
               /\ SFTPFiles' = r.list
               /\ UNCHANGED hist
  /\ UNCHANGED <<variant, pending, archive, local, raw, archivedFiles,
                 filesToDownload, idx, err, srcOpen, dstOpen, runs, uploads>>

\* listing ArchivedPath returns an error: execution goes on with no list
ListArchivedFails_goOn ==
  /\ pc = "listArchived"
  /\ err' = "ListError"
  /\ pc' = "diff"
  /\ UNCHANGED <<variant, pending, archive, local, raw, SFTPFiles,
                 archivedFiles, filesToDownload, idx, srcOpen, dstOpen, runs,
                 uploads, hist>>

\* listing ArchivedPath returns an error: iLog.Fatalf
ListArchivedFails ==
  /\ pc = "listArchived"
  /\ err' = "ListError"
  /\ pc' = "exit"
  /\ hist' = Ended(hist, FALSE, {}, 0)
  /\ UNCHANGED <<variant, pending, archive, local, raw, SFTPFiles,
                 archivedFiles, filesToDownload, idx, srcOpen, dstOpen, runs,
                 uploads>>

\* remote archive: listSFTPFiles(ArchivedPath)
ListArchivedSFTP ==
  /\ pc = "listArchived"
  /\ variant = "remote"
  /\ \E order \in Orderings(archive) :
       LET r == listSFTPFiles(order)
       IN IF r.panic
          THEN /\ pc' = "panic"
               /\ hist' = Ended(hist, FALSE, {}, 0)
               /\ UNCHANGED archivedFiles
          ELSE /\ pc' = "diff"
               /\ archivedFiles' = r.list
               /\ UNCHANGED hist
  /\ UNCHANGED <<variant, pending, archive, local, raw, SFTPFiles,
                 filesToDownload, idx, err, srcOpen, dstOpen, runs, uploads>>

\* local archive: ioutil.ReadDir(ArchivedPath), sorted by name, unfiltered
ListArchivedLocal ==
  /\ pc = "listArchived"
  /\ variant = "local"
  /\ archivedFiles' = SortedByName(archive)
  /\ pc' = "diff"
  /\ UNCHANGED <<variant, pending, archive, local, raw, SFTPFiles,
                 filesToDownload, idx, err, srcOpen, dstOpen, runs, uploads,
                 hist>>

\* filesToDownload := getDiffFileNames(...), then downloadFiles is entered
GetDiff ==
  /\ pc = "diff"
  /\ filesToDownload' = getDiffFileNames(SFTPFiles, archivedFiles)
  /\ idx' = 1
  /\ pc' = "loop"
  /\ UNCHANGED <<variant, pending, archive, local, raw, SFTPFiles,
                 archivedFiles, err, srcOpen, dstOpen, runs, uploads, hist>>

\* ------------------------------------------------------- downloadFiles
CurName == filesToDownload[idx]

\* the failed name and every later name of the diff list
Remainder == {filesToDownload[j] : j \in idx..Len(filesToDownload)}

\* the loop is over: downloadFiles returns nil, main logs success and ends
DownloadFilesDone ==
  /\ pc = "loop"
  /\ idx > Len(filesToDownload)
  /\ err' = "nil"
  /\ pc' = "exit"
  /\ hist' = Ended(hist, TRUE, {}, 0)
  /\ UNCHANGED <<variant, pending, archive, local, raw, SFTPFiles,
                 archivedFiles, filesToDownload, idx, srcOpen, dstOpen, runs,
                 uploads>>

\* the loop takes the next name and calls the download helper
DownloadFilesNext ==
  /\ pc = "loop"
  /\ idx <= Len(filesToDownload)
  /\ pc' = "open"
  /\ hist' = [hist EXCEPT !.dl = @ \cup {CurName}]
  /\ UNCHANGED <<variant, pending, archive, local, raw, SFTPFiles,
                 archivedFiles, filesToDownload, idx, err, srcOpen, dstOpen,
                 runs, uploads>>

\* the error of the download helper is not looked at
AfterDownload_ignore(e) == "archive"

\* remote variant, after downloadRemoteFile: if err != nil { return err }
AfterDownload(e) == IF e # "nil" THEN "return" ELSE "archive"

\* a deferred Close runs when the helper returns
Deferred(n) == n - 1

\* the download helper has ended in error e with handles s and d still open.
\* remote variant: the deferred Closes run and e is returned to downloadFiles,
\* which returns it to main (main then logs it and ends).
\* local variant: iLog.Fatalf inside the helper ends the process at once:
\* nothing is returned and no deferred call runs.
HelperFails(e, s, d) ==
  IF variant = "local"
  THEN /\ pc' = "exit"
       /\ srcOpen' = s
       /\ dstOpen' = d
       /\ hist' = Ended(hist, FALSE, Remainder, idx)
       /\ UNCHANGED <<err, idx>>
  ELSE /\ srcOpen' = IF s > 0 THEN Deferred(s) ELSE s
       /\ dstOpen' = IF d > 0 THEN Deferred(d) ELSE d
       /\ IF AfterDownload(e) = "return"
          THEN /\ err' = e
               /\ pc' = "exit"
               /\ hist' = Ended(hist, FALSE, Remainder, idx)
               /\ UNCHANGED idx
          ELSE /\ pc' = "archive"
               /\ UNCHANGED <<err, idx, hist>>

\* sc.OpenFile(remoteFile, os.O_RDONLY) fails
OpenFails ==
  /\ pc = "open"
  /\ HelperFails("DownloadError", srcOpen, dstOpen)
  /\ UNCHANGED <<variant, pending, archive, local, raw, SFTPFiles,
                 archivedFiles, filesToDownload, runs, uploads>>

\* sc.OpenFile succeeds; defer srcFile.Close()
OpenRemote ==
  /\ pc = "open"
  /\ srcOpen' = srcOpen + 1
  /\ pc' = "create"
  /\ UNCHANGED <<variant, pending, archive, local, raw, SFTPFiles,
                 archivedFiles, filesToDownload, idx, err, dstOpen, runs,
                 uploads, hist>>

\* os.Create(localFile) fails: the local file is as it was
CreateFails ==
  /\ pc = "create"
  /\ HelperFails("DownloadError", srcOpen, dstOpen)
  /\ UNCHANGED <<variant, pending, archive, local, raw, SFTPFiles,
                 archivedFiles, filesToDownload, runs, uploads>>

\* os.Create creates or truncates the local file; defer dstFile.Close()
CreateLocal ==
  /\ pc = "create"
  /\ local' = [local EXCEPT ![CurName] = "partial"]
  /\ dstOpen' = dstOpen + 1
  /\ pc' = "copy"
  /\ UNCHANGED <<variant, pending, archive, raw, SFTPFiles, archivedFiles,
                 filesToDownload, idx, err, srcOpen, runs, uploads, hist>>

\* io.Copy fails: the local file stays incomplete
CopyFails ==
  /\ pc = "copy"
  /\ HelperFails("DownloadError", srcOpen, dstOpen)
  /\ UNCHANGED <<variant, pending, archive, local, raw, SFTPFiles,
                 archivedFiles, filesToDownload, runs, uploads>>

\* io.Copy succeeds and the helper returns nil; the deferred Closes run.
\* remote variant: archiveRemoteFile is next; local variant: the next name.
\* Reading a directory through SFTP fails (in OpenFile or in io.Copy), so
\* only the download of a regular file can succeed.
CopyDone ==
  /\ pc = "copy"
  /\ ~EntryNamed(pending, CurName).isDir
  /\ local' = [local EXCEPT ![CurName] = "full"]
  /\ srcOpen' = Deferred(srcOpen)
  /\ dstOpen' = Deferred(dstOpen)
  /\ hist' = [hist EXCEPT !.dlOk = @ \cup {CurName}]
  /\ IF variant = "remote"
     THEN /\ pc' = AfterDownload("nil")
          /\ UNCHANGED idx
     ELSE /\ pc' = "loop"
          /\ idx' = idx + 1
  /\ UNCHANGED <<variant, pending, archive, raw, SFTPFiles, archivedFiles,
                 filesToDownload, err, runs, uploads>>

\* sc.Rename(read/name, archive/name) fails: nothing moves; the error goes
\* back through downloadFiles to main
ArchiveFails ==
  /\ pc = "archive"
  /\ err' = "ArchiveError"
  /\ pc' = "exit"
  /\ hist' = [Ended(hist, FALSE, Remainder, idx) EXCEPT !.mv = @ \cup {CurName}]
  /\ UNCHANGED <<variant, pending, archive, local, raw, SFTPFiles,
                 archivedFiles, filesToDownload, idx, srcOpen, dstOpen, runs,
                 uploads>>

\* sc.Rename succeeds (the server refuses an existing target): the entry
\* leaves ReadPath and appears in ArchivedPath; the loop goes on
ArchiveRemote ==
  /\ pc = "archive"
  /\ CurName \in EntryNames(pending)
  /\ CurName \notin EntryNames(archive)
  /\ pending' = pending \ {EntryNamed(pending, CurName)}
  /\ archive' = archive \cup {EntryNamed(pending, CurName)}
  /\ idx' = idx + 1
  /\ pc' = "loop"
  /\ hist' = [hist EXCEPT !.mv = @ \cup {CurName}, !.placed = @ \cup {CurName}]
  /\ UNCHANGED <<variant, local, raw, SFTPFiles, archivedFiles,
                 filesToDownload, err, srcOpen, dstOpen, runs, uploads>>

\* ------------------------------------------------------ the specification
Next ==
  \/ StartRun
  \/ Upload
  \/ ListReadFails
  \/ ListRead
  \/ ListArchivedFails
  \/ ListArchivedSFTP
  \/ ListArchivedLocal
  \/ GetDiff
  \/ DownloadFilesDone
  \/ DownloadFilesNext
  \/ OpenFails
  \/ OpenRemote
  \/ CreateFails
  \/ CreateLocal
  \/ CopyFails
  \/ CopyDone
  \/ ArchiveFails
  \/ ArchiveRemote

Spec == Init /\ [][Next]_vars

\* ------------------------------------------- the lister as a pure function
ListEntries == {Entry(n, d) : n \in 1..ListNames, d \in BOOLEAN}

\* what ReadDir can return: entries of one directory, names unique
RawListings ==
  {s \in SeqsUpTo(ListEntries, ListNames) :
     \A j, k \in 1..Len(s) : s[j].name = s[k].name => j = k}

InitList ==
  /\ variant = "remote"
  /\ pending = {}
  /\ archive = {}
  /\ local = [n \in Names |-> "none"]
  /\ pc = "readDir"
  /\ raw \in RawListings
  /\ SFTPFiles = <<>>
  /\ archivedFiles = <<>>
  /\ filesToDownload = <<>>
  /\ idx = 1
  /\ err = "nil"
  /\ srcOpen = 0
  /\ dstOpen = 0
  /\ runs = 0
  /\ uploads = 0
  /\ hist = NoHist

\* the loop of listSFTPFiles over the files ReadDir returned
FilterRaw ==
  /\ pc = "readDir"
  /\ LET r == listSFTPFiles(raw)
     IN IF r.panic
        THEN /\ pc' = "panic"
             /\ UNCHANGED SFTPFiles
        ELSE /\ pc' = "listed"
             /\ SFTPFiles' = r.list
  /\ UNCHANGED <<variant, pending, archive, local, raw, archivedFiles,
                 filesToDownload, idx, err, srcOpen, dstOpen, runs, uploads,
                 hist>>

NextList == FilterRaw

SpecList == InitList /\ [][NextList]_vars

\* --------------------------------------------- the diff as a pure function
DiffEntries == {Entry(n, FALSE) : n \in 1..DiffNames}

InitDiff ==
  /\ variant = "remote"
  /\ pending = {}
  /\ archive = {}
  /\ local = [n \in Names |-> "none"]
  /\ pc = "diff"
  /\ raw = <<>>
  /\ SFTPFiles \in SeqsUpTo(DiffEntries, DiffMaxLen)
  /\ archivedFiles \in SeqsUpTo(DiffEntries, DiffMaxLen)
  /\ filesToDownload = <<>>
  /\ idx = 1
  /\ err = "nil"
  /\ srcOpen = 0
  /\ dstOpen = 0
  /\ runs = 0
  /\ uploads = 0
  /\ hist = NoHist

NextDiff == GetDiff

SpecDiff == InitDiff /\ [][NextDiff]_vars

\* ------------------------------------------------------------- properties
NameSeq(s) == [k \in 1..Len(s) |-> s[k].name]

\* C1: whenever listSFTPFiles returns, it returns exactly the non-directory
\* entries of the raw listing, in listing order.
ListReturnsOnlyFiles ==
  pc = "listed" => SFTPFiles = NonDirs(raw)

\* C10: listSFTPFiles never panics: every remove(files, i) is called with i
\* a valid index of the current files slice.
ListNeverPanics ==
  pc # "panic"

\* C2: the diff is the subsequence of the pending names that are not the
\* name of an archived element; so it has no duplicates when pending has
\* none, and it is empty when every pending name is archived.
DiffIsPendingMinusArchived ==
  pc = "loop" =>
    /\ filesToDownload =
         SelectSeq(NameSeq(SFTPFiles),
                   LAMBDA n : \A k \in 1..Len(archivedFiles) :
                                 archivedFiles[k].name # n)
    /\ NoDup(NameSeq(SFTPFiles)) => NoDup(filesToDownload)
    /\ NamesOf(SFTPFiles) \subseteq NamesOf(archivedFiles)
         => filesToDownload = <<>>

\* a diff that keeps some pending names and drops others
DiffKeepsAndDrops ==
  /\ pc = "loop"
  /\ filesToDownload # <<>>
  /\ Len(filesToDownload) < Len(SFTPFiles)
  /\ Len(archivedFiles) > 1

\* C3: a remote move of a name is attempted only after the download of that
\* name has succeeded in the same run, and every name this program has moved
\* to the archive has a complete local copy.
MoveOnlyAfterDownload ==
  /\ pc = "archive" => CurName \in hist.dlOk /\ local[CurName] = "full"
  /\ hist.mv \subseteq hist.dlOk
  /\ \A n \in hist.placed :
       n \in EntryNames(archive) /\ local[n] = "full"

\* a run has moved a downloaded file to the archive
SomeFileArchived ==
  /\ variant = "remote"
  /\ pc = "exit"
  /\ hist.placed # {}
  /\ hist.mv # {}

\* C4: when the download or the move of the k-th name fails, the run ends:
\* only the names up to k were attempted, the names before k are downloaded
\* (and, where the program archives, archived), and main holds the error.
AbortOnFirstFailure ==
  pc = "exit" /\ hist.failedAt > 0 =>
    LET k == hist.failedAt
    IN /\ hist.dl = {filesToDownload[j] : j \in 1..k}
       /\ hist.mv \subseteq {filesToDownload[j] : j \in 1..k}
       /\ \A j \in 1..(k - 1) :
            /\ local[filesToDownload[j]] = "full"
            /\ variant = "remote" =>
                 filesToDownload[j] \in EntryNames(archive)
       /\ err # "nil"

\* C5: a file name that is in the archive when a run starts is not in that
\* run's diff list and is neither downloaded nor moved by it; the archive
\* loses nothing during a run.
ArchivedNeverProcessedAgain ==
  /\ hist.archAtStart \subseteq archive
  /\ \A e \in hist.archAtStart :
       ~e.isDir =>
         /\ e.name \notin Range(filesToDownload)
         /\ e.name \notin hist.dl
         /\ e.name \notin hist.mv

\* a second run lists a pending file that an earlier run had archived
ArchivedFilePendingAgain ==
  /\ runs = 2
  /\ pc = "loop"
  /\ \E n \in hist.placed : n \in NamesOf(SFTPFiles)

\* C6: every pending name is in the diff or archived; and the run that
\* follows an error-free run, with no new remote entry in between, computes
\* an empty diff and downloads and moves nothing.
Convergence ==
  /\ pc = "loop" =>
       NamesOf(SFTPFiles) \subseteq
         Range(filesToDownload) \cup NamesOf(archivedFiles)
  /\ pc \notin Stopped /\ hist.prevOk /\ ~hist.changed =>
       filesToDownload = <<>> /\ hist.dl = {} /\ hist.mv = {}

\* C7: after a run aborted by a failed download or move, the failed name and
\* the later names are still pending and not archived, and the diff list of
\* the next run contains all of them.
RetryAfterAbort ==
  /\ pc = "exit" /\ hist.failedAt > 0 =>
       \A n \in hist.prevRemainder :
         n \in EntryNames(pending) /\ n \notin EntryNames(archive)
  /\ pc \in {"loop", "open", "create", "copy", "archive"} =>
       hist.prevRemainder \subseteq Range(filesToDownload)

\* C8: a failed listing ends the run at once; nothing was downloaded or
\* moved, and the download directory and both remote directories are as
\* they were when the run started.
ListErrorChangesNothing ==
  /\ err = "ListError" => pc \in {"exit", "idle"}
  /\ err = "ListError" /\ pc = "exit" =>
       /\ pending = hist.pendAtStart
       /\ archive = hist.archAtStart
       /\ local = hist.localAtStart
       /\ hist.dl = {} /\ hist.mv = {}
       /\ filesToDownload = <<>>

\* the archive listing failed after the pending listing had found new files
ArchiveListingFailed ==
  /\ err = "ListError"
  /\ pc = "exit"
  /\ \E k \in 1..Len(SFTPFiles) :
       SFTPFiles[k].name \notin EntryNames(archive)

\* C9: at most one remote and one local handle are open, and none is open
\* outside the download step of a name.
HandlesReleased ==
  /\ srcOpen <= 1
  /\ dstOpen <= 1
  /\ pc \notin {"create", "copy"} => srcOpen = 0 /\ dstOpen = 0

====
